---- MODULE Spec2Model ----
(***************************************************************************)
(* A model of output_anomaly.py: the Format A record decoder (read_file),  *)
(* the time-range resolver (search_dates, get_start_end_dates), the        *)
(* per-file event state machine and Saturday aggregator (parse_file) and   *)
(* the batch driver (__main__).                                            *)
(*                                                                         *)
(* Conventions.  A Python value that may be None is a sequence of length   *)
(* 0 (None) or 1 (the value).  A timestamp string is the pair              *)
(* <<day, hour>>, day counted from a Monday, so that zero-padded ISO       *)
(* strings compare as the pairs do; the literal '(invalid date)' is        *)
(* InvalidDate.  A text line is a sequence of one-character strings.       *)
(***************************************************************************)
EXTENDS Integers, Sequences, FiniteSets, TLC

VARIABLES
    \* read_file
    data,                   \* lines of the opened file not yet read
    line,                   \* the line the loop body last ran on (None before)
    yielded,                \* DARecords yielded so far
    rf_pc,                  \* "reading" | "exhausted" | "failed"
    \* search_dates / get_start_end_dates
    in_dates,               \* Date column of the records of the file
    scanned,                \* how many of them the loop has read
    sd_start,               \* search_dates: start_date
    sd_end,                 \* search_dates: end_date
    resolved,               \* None, or <<result>> of get_start_end_dates
    \* __main__
    pc,                     \* "main" | "parse" | "finished" | "raised" | "idle"
    files_done,             \* devices of the file list processed so far
    no_of_ignored_files,
    summary,                \* data rows appended to saturday_totals.csv
    \* the file being processed, as both passes over it see it
    file_first,             \* Date of its first valid-date record (None: none)
    file_last,              \* Date of its last valid-date record
    seen_valid,             \* parse pass: a valid-date record has been read
    at_last,                \* parse pass: the last valid-date record read is file_last
    \* parse_file
    start_date, end_date,
    row,                    \* the record the loop body last ran on (None before)
    rows_read,
    current_hour, current_day, current_weekday,
    no_of_days, no_of_days_week,
    app_foreground_use,
    screen_on, screen_unlocked,
    last_importance_app_pid,
    ids_names,
    current_app_name_id_mapping,
    app_data

decoderVars == <<data, line, yielded, rf_pc>>
resolverVars == <<in_dates, scanned, sd_start, sd_end, resolved>>
driverVars == <<pc, files_done, no_of_ignored_files, summary>>
fileVars == <<file_first, file_last, seen_valid, at_last>>
clockVars == <<current_hour, current_day, current_weekday, no_of_days, no_of_days_week>>
foregroundVars == <<app_foreground_use, screen_on, screen_unlocked, last_importance_app_pid>>
trafficVars == <<ids_names, current_app_name_id_mapping, app_data>>
parseVars == <<start_date, end_date, row, rows_read, clockVars, foregroundVars, trafficVars>>
vars == <<decoderVars, resolverVars, driverVars, fileVars, parseVars>>

None == <<>>
Some(x) == <<x>>
Val(o) == o[1]

InvalidDate == <<>>
Day(d) == d[1]
Hour(d) == d[2]
\* str < str on 'YYYY-MM-DDTHH:MM:SS'
Before(a, b) == Day(a) < Day(b) \/ (Day(a) = Day(b) /\ Hour(a) < Hour(b))
\* datetime.weekday(): Monday is 0
WeekdayOf(day) == day % 7

Range(s) == {s[i] : i \in DOMAIN s}

(***************************************************************************)
(* read_file: the Format A decoder.                                        *)
(***************************************************************************)
Delimiter == ";"
Comma == ","

\* the number of characters of s before its first c (Len(s) when c is absent)
RECURSIVE Upto(_, _)
Upto(s, c) ==
    IF s = <<>> \/ Head(s) = c THEN 0 ELSE 1 + Upto(Tail(s), c)

\* str.split(c)
RECURSIVE Split(_, _)
Split(s, c) ==
    LET n == Upto(s, c)
    IN  IF n = Len(s) THEN <<s>>
        ELSE <<SubSeq(s, 1, n)>> \o Split(SubSeq(s, n + 2, Len(s)), c)

\* Reduce joining with the field delimiter
RECURSIVE ReduceWithDelimiter(_)
ReduceWithDelimiter(items) ==
    IF Len(items) = 1 THEN items[1]
    ELSE ReduceWithDelimiter(<<items[1] \o <<Delimiter>> \o items[2]>>
                             \o SubSeq(items, 3, Len(items)))

\* reduce(lambda x, y: x + ',' + y, items), items not empty
RECURSIVE Reduce(_)
Reduce(items) ==
    IF Len(items) = 1 THEN items[1]
    ELSE Reduce(<<items[1] \o <<Comma>> \o items[2]>> \o SubSeq(items, 3, Len(items)))

\* e[4:] and e[0:4]
From4(e) == SubSeq(e, 5, Len(e))
First4(e) == SubSeq(e, 1, IF Len(e) < 4 THEN Len(e) ELSE 4)

\* reduce() of an empty sequence raises TypeError; DARecord._make raises on a
\* sequence that has not five items
Raises(text) == From4(Split(text, Delimiter)) = <<>>

Repacked(text) ==
    LET e == Split(text, Delimiter)
    IN  First4(e) \o <<Reduce(From4(e))>>

\* DARecord._make(repacked): the tuple of the five fields_da
fields_da == <<"Entry", "Num", "Date", "EntryType", "Value">>
DARecord(repacked) == [i \in DOMAIN fields_da |-> repacked[i]]

\* one iteration of `for line in data`
ReadLine ==
    /\ rf_pc = "reading"
    /\ data # <<>>
    /\ line' = Some(Head(data))
    /\ data' = Tail(data)
    /\ IF Raises(Head(data))
       THEN /\ rf_pc' = "failed"
            /\ UNCHANGED yielded
       ELSE /\ yielded' = Append(yielded, DARecord(Repacked(Head(data))))
            /\ rf_pc' = "reading"
    /\ UNCHANGED <<resolverVars, driverVars, fileVars, parseVars>>

EndOfData ==
    /\ rf_pc = "reading"
    /\ data = <<>>
    /\ rf_pc' = "exhausted"
    /\ UNCHANGED <<data, line, yielded>>
    /\ UNCHANGED <<resolverVars, driverVars, fileVars, parseVars>>

(***************************************************************************)
(* search_dates and get_start_end_dates: the time-range resolver.          *)
(***************************************************************************)
MinWindowDays == 14
DayStartHour == 4

\* one iteration of the loop of search_dates
SearchRow ==
    /\ resolved = None
    /\ scanned < Len(in_dates)
    /\ scanned' = scanned + 1
    /\ LET date_time == in_dates[scanned + 1]
       IN  IF date_time = InvalidDate
           THEN UNCHANGED <<sd_start, sd_end>>
           ELSE /\ sd_start' = (IF sd_start = None THEN Some(date_time) ELSE sd_start)
                /\ sd_end' = Some(date_time)
    /\ UNCHANGED <<in_dates, resolved>>
    /\ UNCHANGED <<decoderVars, driverVars, fileVars, parseVars>>

\* StartDateToReturn keeping the date of a start at 4 o'clock
StartDateToReturnAtFour(start) ==
    IF Hour(start) <= DayStartHour THEN Day(start) ELSE Day(start) + 1

StartDateToReturn(start) ==
    IF Hour(start) < DayStartHour THEN Day(start) ELSE Day(start) + 1

EndDateToReturn(end) ==
    IF Hour(end) >= DayStartHour THEN Day(end) ELSE Day(end) - 1

\* GetStartEndDates refusing a difference of exactly MinWindowDays
GetStartEndDatesOver(start, end) ==
    IF start = None \/ end = None THEN <<None, None>>
    ELSE LET s == StartDateToReturn(Val(start))
             e == EndDateToReturn(Val(end))
         IN  IF e - s <= MinWindowDays THEN <<None, None>>
             ELSE <<Some(<<s, DayStartHour>>), Some(<<e, DayStartHour>>)>>

\* the pair get_start_end_dates returns for what search_dates found;
\* <<None, None>> when the device is to be ignored
GetStartEndDates(start, end) ==
    IF start = None \/ end = None THEN <<None, None>>
    ELSE LET s == StartDateToReturn(Val(start))
             e == EndDateToReturn(Val(end))
         IN  IF e - s < MinWindowDays THEN <<None, None>>
             ELSE <<Some(<<s, DayStartHour>>), Some(<<e, DayStartHour>>)>>

\* the end of search_dates' loop, and get_start_end_dates on its result
Resolve ==
    /\ resolved = None
    /\ scanned = Len(in_dates)
    /\ resolved' = Some(GetStartEndDates(sd_start, sd_end))
    /\ UNCHANGED <<in_dates, scanned, sd_start, sd_end>>
    /\ UNCHANGED <<decoderVars, driverVars, fileVars, parseVars>>

(***************************************************************************)
(* Records as parse_file reads them.  EntryType is row.EntryType split on  *)
(* '|' (entry_val).  Value is row.Value as the branch that reads it takes  *)
(* it apart: the words of an importance, locked or power value; the        *)
(* ':'-separated parts of a name value; <<n>> for a counter text int()     *)
(* turns into n and <<>> for one it rejects; the ','-separated entries of  *)
(* an installed value, each split on '@', the part after it split on ':'.  *)
(***************************************************************************)
Record(date, entry_val, value) ==
    [Date |-> date, EntryType |-> entry_val, Value |-> value]

logs_to_parse == {"app", "screen", "hf", "net"}

WeekDays == 0..6
Hours == 0..23

\* row_entry_type.startswith(prefix), prefix given by its segments
StartsWith(entry_val, prefix) ==
    /\ Len(entry_val) >= Len(prefix)
    /\ SubSeq(entry_val, 1, Len(prefix)) = prefix

\* [[0 for x in range(0,24)] for y in range(0,7)]
ZeroGrid == [y \in WeekDays |-> [x \in Hours |-> 0]]
\* [[[] for x in range(0,24)] for y in range(0,7)]
EmptyGrid == [y \in WeekDays |-> [x \in Hours |-> <<>>]]
\* app_data[temp_name] = [None, grid, None, grid]
NewBucket == [last_rx |-> None, rx |-> EmptyGrid, last_tx |-> None, tx |-> EmptyGrid]

\* a dict, where the order of its items does not matter
EmptyDict == [k \in {} |-> None]
Put(dict, k, v) == (k :> v) @@ dict

\* current_app_name_id_mapping, a dict whose items() are read in order:
\* the sequence of its items
Keys(mapping) == {mapping[i].key : i \in DOMAIN mapping}
SetItem(mapping, k, v) ==
    IF k \in Keys(mapping)
    THEN [i \in DOMAIN mapping |->
            IF mapping[i].key = k THEN [key |-> k, val |-> v] ELSE mapping[i]]
    ELSE Append(mapping, [key |-> k, val |-> v])
Matches(mapping, app_id) == {i \in DOMAIN mapping : mapping[i].val = app_id}

\* ResolveAppName leaving the loop at the first match
ResolveFirstName(mapping, app_id) ==
    LET m == Matches(mapping, app_id)
    IN  IF m = {} THEN None
        ELSE Some(mapping[CHOOSE i \in m : \A j \in m : i <= j].key)

\* the loop of lines 225-227: every match overwrites app_name, the last one stays
ResolveAppName(mapping, app_id) ==
    LET m == Matches(mapping, app_id)
    IN  IF m = {} THEN None
        ELSE Some(mapping[CHOOSE i \in m : \A j \in m : j <= i].key)

\* Skipped without the window test
SkippedNoWindow(r) ==
    r.EntryType[1] \notin logs_to_parse \/ r.Date = InvalidDate

\* the window test of line 179 and the category and date test of line 176
Skipped(r) ==
    IF r.EntryType[1] \notin logs_to_parse \/ r.Date = InvalidDate THEN TRUE
    ELSE Before(r.Date, Val(start_date)) \/ ~Before(r.Date, Val(end_date))

\* which arm of the if/elif chain of lines 191-250 a processed record takes
Branch(r) ==
    IF "importance" \in Range(r.EntryType) /\ "foreground" \in Range(r.Value)
    THEN "importance"
    ELSE IF /\ "app" \in Range(r.EntryType)
            /\ "name" \in Range(r.EntryType)
            /\ last_importance_app_pid # None
    THEN "name"
    ELSE IF StartsWith(r.EntryType, <<"hf", "locked">>) THEN "locked"
    ELSE IF StartsWith(r.EntryType, <<"screen", "power">>) THEN "power"
    ELSE IF StartsWith(r.EntryType, <<"net", "app">>) THEN "net"
    ELSE IF StartsWith(r.EntryType, <<"app", "installed">>) THEN "installed"
    ELSE "none"

\* both passes read the same file: the first valid-date record the parse
\* pass reads is the one search_dates started from
FromFile(r) ==
    r.Date # InvalidDate /\ ~seen_valid => Some(r.Date) = file_first

\* reading one more record of the file
Read(r) ==
    /\ row' = Some(r)
    /\ rows_read' = rows_read + 1
    /\ seen_valid' = (seen_valid \/ r.Date # InvalidDate)
    /\ at_last' = (IF r.Date = InvalidDate THEN at_last ELSE Some(r.Date) = file_last)
    /\ UNCHANGED <<file_first, file_last, start_date, end_date>>

\* lines 182-188
Clock(r) ==
    /\ IF current_day # Some(Day(r.Date))
       THEN /\ current_day' = Some(Day(r.Date))
            /\ current_weekday' = Some(WeekdayOf(Day(r.Date)))
            /\ no_of_days_week' =
                   [no_of_days_week EXCEPT ![WeekdayOf(Day(r.Date))] = @ + 1]
            /\ no_of_days' = no_of_days + 1
       ELSE UNCHANGED <<current_day, current_weekday, no_of_days_week, no_of_days>>
    /\ current_hour' = Some(Hour(r.Date))

Continue ==
    /\ pc' = pc
    /\ UNCHANGED <<files_done, no_of_ignored_files, summary>>
    /\ UNCHANGED <<decoderVars, resolverVars>>

\* an exception nothing catches ends the run
Raise ==
    /\ pc' = "raised"
    /\ UNCHANGED <<files_done, no_of_ignored_files, summary>>
    /\ UNCHANGED <<decoderVars, resolverVars>>

\* lines 176-180: the two `continue`s
SkipRow(r) ==
    /\ pc = "parse"
    /\ FromFile(r)
    /\ Skipped(r)
    /\ Read(r)
    /\ Continue
    /\ UNCHANGED <<clockVars, foregroundVars, trafficVars>>

\* lines 191-192
Importance(r) ==
    /\ pc = "parse"
    /\ FromFile(r)
    /\ ~Skipped(r)
    /\ Branch(r) = "importance"
    /\ Read(r)
    /\ Clock(r)
    /\ last_importance_app_pid' = Some(r.EntryType[2])
    /\ Continue
    /\ UNCHANGED <<app_foreground_use, screen_on, screen_unlocked, trafficVars>>

\* app_foreground_use[app_name][current_weekday][current_hour] += 1, the grid
\* made first when the name has none
Activated(use, app_name, weekday, hour) ==
    LET grid == IF app_name \in DOMAIN use THEN use[app_name] ELSE ZeroGrid
    IN  Put(use, app_name, [grid EXCEPT ![weekday][hour] = @ + 1])

\* Attributed without the test of the lock
AttributedWhileLocked(pid, pending, on, unlocked) ==
    Some(pid) = pending /\ on

\* Attributed without the test of the screen's power
AttributedScreenOff(pid, pending, on, unlocked) ==
    Some(pid) = pending /\ unlocked

\* lines 200-202: the pids match and the user is using the device
Attributed(pid, pending, on, unlocked) ==
    Some(pid) = pending /\ on /\ unlocked

\* lines 194-208
AppName(r) ==
    /\ pc = "parse"
    /\ FromFile(r)
    /\ ~Skipped(r)
    /\ Branch(r) = "name"
    /\ Read(r)
    /\ Clock(r)
    /\ IF Attributed(r.EntryType[2], last_importance_app_pid, screen_on, screen_unlocked)
       THEN app_foreground_use' =
                Activated(app_foreground_use, r.Value[1],
                          Val(current_weekday'), Val(current_hour'))
       ELSE UNCHANGED app_foreground_use
    /\ last_importance_app_pid' = None
    /\ Continue
    /\ UNCHANGED <<screen_on, screen_unlocked, trafficVars>>

\* lines 210-214
HfLocked(r) ==
    /\ pc = "parse"
    /\ FromFile(r)
    /\ ~Skipped(r)
    /\ Branch(r) = "locked"
    /\ Read(r)
    /\ Clock(r)
    /\ screen_unlocked' = ("true" \notin Range(r.Value))
    /\ Continue
    /\ UNCHANGED <<app_foreground_use, screen_on, last_importance_app_pid, trafficVars>>

\* lines 216-220
ScreenPower(r) ==
    /\ pc = "parse"
    /\ FromFile(r)
    /\ ~Skipped(r)
    /\ Branch(r) = "power"
    /\ Read(r)
    /\ Clock(r)
    /\ screen_on' = ("off" \notin Range(r.Value))
    /\ Continue
    /\ UNCHANGED <<app_foreground_use, screen_unlocked, last_importance_app_pid, trafficVars>>

\* a processed record no arm of the chain matches
NoBranch(r) ==
    /\ pc = "parse"
    /\ FromFile(r)
    /\ ~Skipped(r)
    /\ Branch(r) = "none"
    /\ Read(r)
    /\ Clock(r)
    /\ Continue
    /\ UNCHANGED <<foregroundVars, trafficVars>>

\* Appended with an unset last counter read as 0
AppendedFromZero(cell, last, reading) ==
    IF last = None THEN Append(cell, reading)
    ELSE IF reading > Val(last) THEN Append(cell, reading - Val(last))
    ELSE IF reading < Val(last) THEN Append(cell, reading)
    ELSE cell

\* Appended without the arm for a counter that went down
AppendedUnlessReset(cell, last, reading) ==
    IF last = None THEN cell
    ELSE IF reading > Val(last) THEN Append(cell, reading - Val(last))
    ELSE cell

\* lines 231-239 (rx_bytes) and 240-248 (tx_bytes): the list of the cell after
\* a reading, given the stored last counter
Appended(cell, last, reading) ==
    IF last = None THEN cell
    ELSE IF reading > Val(last) THEN Append(cell, reading - Val(last))
    ELSE IF reading < Val(last) THEN Append(cell, reading)
    ELSE cell

RxReading(bucket, weekday, hour, reading) ==
    [bucket EXCEPT !.rx[weekday][hour] = Appended(@, bucket.last_rx, reading),
                   !.last_rx = Some(reading)]

TxReading(bucket, weekday, hour, reading) ==
    [bucket EXCEPT !.tx[weekday][hour] = Appended(@, bucket.last_tx, reading),
                   !.last_tx = Some(reading)]

\* entry_val[2] of a record with fewer than three segments, entry_val[3] of a
\* resolved one with fewer than four, and int() of a text that is no integer
NetRaises(r) ==
    IF Len(r.EntryType) < 3 THEN TRUE
    ELSE IF ResolveAppName(current_app_name_id_mapping, r.EntryType[3]) = None THEN FALSE
    ELSE IF Len(r.EntryType) < 4 THEN TRUE
    ELSE r.EntryType[4] \in {"rx_bytes", "tx_bytes"} /\ r.Value = <<>>

\* lines 222-248
NetApp(r) ==
    /\ pc = "parse"
    /\ FromFile(r)
    /\ ~Skipped(r)
    /\ Branch(r) = "net"
    /\ Read(r)
    /\ Clock(r)
    /\ IF NetRaises(r)
       THEN Raise /\ UNCHANGED app_data
       ELSE /\ Continue
            /\ LET app_name == ResolveAppName(current_app_name_id_mapping, r.EntryType[3])
                   wd == Val(current_weekday')
                   hr == Val(current_hour')
               IN  IF app_name = None THEN UNCHANGED app_data
                   ELSE IF r.EntryType[4] = "rx_bytes"
                   THEN app_data' = [app_data EXCEPT ![Val(app_name)] =
                                        RxReading(@, wd, hr, Val(r.Value))]
                   ELSE IF r.EntryType[4] = "tx_bytes"
                   THEN app_data' = [app_data EXCEPT ![Val(app_name)] =
                                        TxReading(@, wd, hr, Val(r.Value))]
                   ELSE UNCHANGED app_data
    /\ UNCHANGED <<foregroundVars, ids_names, current_app_name_id_mapping>>

\* temp_app_id = app_info[len(app_info) - 2]: the last but one part, and of a
\* single part that part (index -1)
TempAppId(app_info) ==
    IF Len(app_info) >= 2 THEN app_info[Len(app_info) - 1] ELSE app_info[1]

\* lines 264-266: every other name holding the id is set to ''
Unbound == ""

\* Invalidate that leaves a stale name bound
InvalidateNothing(mapping, temp_app_id, temp_name) == mapping

Invalidate(mapping, temp_app_id, temp_name) ==
    [i \in DOMAIN mapping |->
        IF mapping[i].val = temp_app_id /\ mapping[i].key # temp_name
        THEN [key |-> mapping[i].key, val |-> Unbound]
        ELSE mapping[i]]

\* lines 261-267
RemoveOldMapping(mapping, ids, temp_app_id, temp_name) ==
    IF temp_app_id \notin DOMAIN ids THEN mapping
    ELSE IF ids[temp_app_id] # temp_name
    THEN Invalidate(mapping, temp_app_id, temp_name)
    ELSE mapping

\* InstallEntry making a new bucket at every installation
InstallEntryAnew(st, installed_details) ==
    IF Len(installed_details) > 1
    THEN LET temp_name == installed_details[1]
             temp_app_id == TempAppId(installed_details[2])
         IN  [ids |-> Put(st.ids, temp_app_id, temp_name),
              mapping |-> SetItem(RemoveOldMapping(st.mapping, st.ids,
                                                   temp_app_id, temp_name),
                                  temp_name, temp_app_id),
              data |-> Put(st.data, temp_name, NewBucket)]
    ELSE st

\* lines 252-269 for one app_entry; st holds ids_names, the mapping and app_data
InstallEntry(st, installed_details) ==
    IF Len(installed_details) > 1
    THEN LET temp_name == installed_details[1]
             temp_app_id == TempAppId(installed_details[2])
         IN  [ids |-> Put(st.ids, temp_app_id, temp_name),
              mapping |-> SetItem(RemoveOldMapping(st.mapping, st.ids,
                                                   temp_app_id, temp_name),
                                  temp_name, temp_app_id),
              data |-> IF temp_name \notin Keys(st.mapping)
                       THEN Put(st.data, temp_name, NewBucket)
                       ELSE st.data]
    ELSE st

\* the loop of line 251
RECURSIVE InstallAll(_, _)
InstallAll(st, entries) ==
    IF entries = <<>> THEN st
    ELSE InstallAll(InstallEntry(st, Head(entries)), Tail(entries))

\* lines 250-269
AppInstalled(r) ==
    /\ pc = "parse"
    /\ FromFile(r)
    /\ ~Skipped(r)
    /\ Branch(r) = "installed"
    /\ Read(r)
    /\ Clock(r)
    /\ LET st == InstallAll([ids |-> ids_names,
                             mapping |-> current_app_name_id_mapping,
                             data |-> app_data], r.Value)
       IN  /\ ids_names' = st.ids
           /\ current_app_name_id_mapping' = st.mapping
           /\ app_data' = st.data
    /\ Continue
    /\ UNCHANGED foregroundVars

(***************************************************************************)
(* The Saturday aggregator, lines 271-302.  A quotient sum/no_of_saturdays *)
(* is kept exact, as a fraction in lowest terms.                           *)
(***************************************************************************)
MinObservedDays == 14
index_of_saturday == 5

RECURSIVE GCD(_, _)
GCD(a, b) == IF b = 0 THEN a ELSE GCD(b, a % b)
Abs(n) == IF n < 0 THEN 0 - n ELSE n

Frac(n, d) ==
    LET g == GCD(Abs(n), d)
    IN  [num |-> n \div g, den |-> d \div g]
Zero == Frac(0, 1)
Plus(a, b) == Frac(a.num * b.den + b.num * a.den, a.den * b.den)

\* sum(ihour)
RECURSIVE Sum(_)
Sum(list) == IF list = <<>> THEN 0 ELSE Head(list) + Sum(Tail(list))

\* Mean dividing by the number of deltas of the hour
MeanOfDeltas(grid, no_of_saturdays) ==
    IF no_of_saturdays # 0
    THEN [h \in Hours |->
             IF grid[index_of_saturday][h] = <<>> THEN Zero
             ELSE Frac(Sum(grid[index_of_saturday][h]),
                       Len(grid[index_of_saturday][h]))]
    ELSE [h \in Hours |-> Zero]

\* lines 280-285: mean_rx, mean_tx of one app
Mean(grid, no_of_saturdays) ==
    IF no_of_saturdays # 0
    THEN [h \in Hours |-> Frac(Sum(grid[index_of_saturday][h]), no_of_saturdays)]
    ELSE [h \in Hours |-> Zero]

\* lines 287-292: a mean that is not all zero is added to the running total
AddMean(total, mean) ==
    IF \A h \in Hours : mean[h] = Zero THEN total
    ELSE [h \in Hours |-> Plus(total[h], mean[h])]

\* the loop of line 279 over the apps of a set; addition commutes
RECURSIVE TotalOver(_, _, _, _)
TotalOver(apps, buckets, direction, no_of_saturdays) ==
    IF apps = {} THEN [h \in Hours |-> Zero]
    ELSE LET app == CHOOSE a \in apps : TRUE
         IN  AddMean(TotalOver(apps \ {app}, buckets, direction, no_of_saturdays),
                     Mean(IF direction = "rx" THEN buckets[app].rx ELSE buckets[app].tx,
                          no_of_saturdays))

\* lines 272-296: saturday_total
SaturdayTotal(buckets, days_week) ==
    LET no_of_saturdays == days_week[index_of_saturday]
        saturday_total_rx == TotalOver(DOMAIN buckets, buckets, "rx", no_of_saturdays)
        saturday_total_tx == TotalOver(DOMAIN buckets, buckets, "tx", no_of_saturdays)
    IN  [h \in Hours |-> Plus(saturday_total_rx[h], saturday_total_tx[h])]

\* Aggregated without the test of the day counter
AggregatedAlways == TRUE

\* Aggregated that also wants a Saturday
AggregatedWithSaturday ==
    no_of_days >= MinObservedDays /\ no_of_days_week[index_of_saturday] # 0

\* line 271
Aggregated == no_of_days >= MinObservedDays

\* the end of the file: lines 271-302, and the return to the loop of __main__
EndOfFile ==
    /\ pc = "parse"
    /\ at_last
    /\ IF Aggregated
       THEN /\ summary' = Append(summary,
                                 [fname |-> files_done,
                                  totals |-> SaturdayTotal(app_data, no_of_days_week)])
            /\ UNCHANGED no_of_ignored_files
       ELSE /\ no_of_ignored_files' = no_of_ignored_files + 1
            /\ UNCHANGED summary
    /\ pc' = "main"
    /\ files_done' = files_done + 1
    /\ UNCHANGED <<decoderVars, resolverVars, fileVars, parseVars>>

(***************************************************************************)
(* __main__: the loop over the file list, lines 325-336.                   *)
(***************************************************************************)
\* lines 148-167: the locals of parse_file
EnterParseFile(range) ==
    /\ start_date' = range[1]
    /\ end_date' = range[2]
    /\ row' = None
    /\ rows_read' = 0
    /\ current_hour' = None
    /\ current_day' = None
    /\ current_weekday' = None
    /\ no_of_days' = 0
    /\ app_foreground_use' = EmptyDict
    /\ screen_on' = FALSE
    /\ screen_unlocked' = FALSE
    /\ last_importance_app_pid' = None
    /\ no_of_days_week' = [day \in WeekDays |-> 0]
    /\ ids_names' = EmptyDict
    /\ current_app_name_id_mapping' = <<>>
    /\ app_data' = EmptyDict

\* one device of the list: its range is resolved from the first and the last
\* valid date of its file; without a range it is ignored, with one parse_file
\* is entered
NextFile(first, last) ==
    /\ pc = "main"
    /\ (first = None) = (last = None)
    /\ file_first' = first
    /\ file_last' = last
    /\ seen_valid' = FALSE
    /\ at_last' = FALSE
    /\ LET range == GetStartEndDates(first, last)
       IN  IF range[1] = None \/ range[2] = None
           THEN /\ no_of_ignored_files' = no_of_ignored_files + 1
                /\ files_done' = files_done + 1
                /\ pc' = "main"
                /\ UNCHANGED parseVars
           ELSE /\ EnterParseFile(range)
                /\ pc' = "parse"
                /\ UNCHANGED <<files_done, no_of_ignored_files>>
    /\ UNCHANGED summary
    /\ UNCHANGED <<decoderVars, resolverVars>>

\* the file list is exhausted: lines 339-341
EndOfList ==
    /\ pc = "main"
    /\ pc' = "finished"
    /\ UNCHANGED <<files_done, no_of_ignored_files, summary>>
    /\ UNCHANGED <<decoderVars, resolverVars, fileVars, parseVars>>

(***************************************************************************)
(* Inputs.  The records of a file are drawn one at a time from a finite    *)
(* set, so that a specification ranges over every file made of the records *)
(* of its set; day 5 and day 12 are Saturdays, day 6 and day 13 Sundays.   *)
(***************************************************************************)
SeqsUpTo(S, n) == UNION {[1..k -> S] : k \in 0..n}

ImportanceRow(date, pid, value) == Record(date, <<"app", pid, "importance">>, <<value>>)
NameRow(date, pid, name) == Record(date, <<"app", pid, "name">>, <<name, "group">>)
LockedRow(date, value) == Record(date, <<"hf", "locked">>, <<value>>)
PowerRow(date, value) == Record(date, <<"screen", "power">>, <<value>>)
NetRow(date, app_id, kind, reading) ==
    Record(date, <<"net", "app", app_id, kind>>, <<reading>>)
AppEntry(name, app_id) == <<name, <<"1.0", app_id, "u0">>>>
InstalledRow(date, entries) == Record(date, <<"app", "installed">>, entries)
PhoneRow(date) == Record(date, <<"phone", "state">>, <<"idle">>)

MaxRows == 6
MaxIdentityRows == 6
MaxForegroundRows == 7
MaxDevices == 2
MaxBatchRows == 16
MaxSaturdayRows == 17
MaxTrafficRows == 6
MaxDates == 3
MaxFailureRows == 6
MaxLines == 4
MaxLineLen == 6

\* the first and the last valid date of a file, and the records that carry them
FileEnds == {None, Some(<<0, 14>>), Some(<<20, 14>>)}
EndRows == {PowerRow(<<0, 14>>, "on"), PowerRow(<<20, 14>>, "on")}

CounterRows ==
    {InstalledRow(<<5, 14>>, <<AppEntry("A", "7")>>),
     NetRow(<<5, 14>>, "7", "rx_bytes", 50),
     NetRow(<<5, 14>>, "7", "rx_bytes", 100),
     NetRow(<<5, 14>>, "7", "rx_bytes", 250),
     NetRow(<<6, 3>>, "7", "rx_bytes", 250),
     NetRow(<<5, 14>>, "7", "tx_bytes", 50),
     NetRow(<<6, 3>>, "7", "tx_bytes", 100),
     NetRow(<<5, 14>>, "7", "rx_packets", 100),
     InstalledRow(<<5, 14>>, <<AppEntry("B", "8")>>),
     NetRow(<<5, 14>>, "8", "rx_bytes", 100),
     PowerRow(InvalidDate, "on")}
    \cup EndRows

IdentityRows ==
    {InstalledRow(<<5, 14>>, <<AppEntry("A", "7")>>),
     InstalledRow(<<5, 14>>, <<AppEntry("B", "7")>>),
     InstalledRow(<<5, 14>>, <<AppEntry("A", "8")>>),
     InstalledRow(<<5, 14>>, <<AppEntry("B", "")>>),
     InstalledRow(<<5, 14>>, <<AppEntry("A", "7"), <<"noise">>, AppEntry("B", "7")>>),
     NetRow(<<5, 14>>, "7", "rx_bytes", 100),
     NetRow(<<5, 14>>, "7", "rx_bytes", 250),
     NetRow(<<5, 14>>, "8", "tx_bytes", 100),
     NetRow(<<5, 14>>, "", "rx_bytes", 100),
     PhoneRow(<<5, 14>>)}
    \cup EndRows

ForegroundRows ==
    {ImportanceRow(<<5, 14>>, "1", "foreground"),
     ImportanceRow(<<5, 14>>, "2", "foreground"),
     ImportanceRow(<<5, 14>>, "1", "background"),
     NameRow(<<5, 14>>, "1", "A"),
     NameRow(<<5, 14>>, "2", "A"),
     NameRow(<<5, 14>>, "1", "B"),
     NameRow(<<6, 3>>, "1", "A"),
     LockedRow(<<5, 14>>, "true"),
     LockedRow(<<5, 14>>, "false"),
     PowerRow(<<5, 14>>, "on"),
     PowerRow(<<5, 14>>, "off"),
     NetRow(<<5, 14>>, "7", "rx_bytes", 100),
     InstalledRow(<<5, 14>>, <<AppEntry("A", "7")>>),
     PowerRow(InvalidDate, "on"),
     PhoneRow(<<5, 14>>)}
    \cup EndRows

BatchEnds == {None, Some(<<0, 14>>), Some(<<5, 14>>), Some(<<6, 14>>), Some(<<20, 14>>)}
BatchRows ==
    {PowerRow(<<0, 14>>, "on"),
     PowerRow(<<5, 14>>, "on"),
     PowerRow(<<6, 14>>, "on"),
     PowerRow(<<13, 14>>, "on"),
     PowerRow(<<20, 14>>, "on")}

SaturdayTrafficRows ==
    {InstalledRow(<<6, 14>>, <<AppEntry("A", "7"), AppEntry("B", "8")>>),
     NetRow(<<6, 14>>, "7", "rx_bytes", 1000),
     NetRow(<<5, 14>>, "7", "rx_bytes", 2000),
     NetRow(<<13, 14>>, "7", "rx_bytes", 3000),
     NetRow(<<5, 14>>, "8", "tx_bytes", 1000),
     NetRow(<<5, 3>>, "8", "tx_bytes", 1500)}
SaturdayClockRows ==
    {PowerRow(<<6, 14>>, "on"), PowerRow(<<13, 14>>, "on")} \cup EndRows

\* records of which parse_file takes apart more than they hold
FailureRows ==
    {InstalledRow(<<5, 14>>, <<AppEntry("A", "7")>>),
     NetRow(<<5, 14>>, "7", "rx_bytes", 100),
     Record(<<5, 14>>, <<"net", "app", "7", "rx_bytes">>, <<>>),
     Record(<<5, 14>>, <<"net", "app", "7">>, <<100>>),
     Record(<<5, 14>>, <<"net", "app">>, <<100>>),
     Record(<<5, 14>>, <<"net", "app", "8">>, <<100>>)}
    \cup EndRows

ResolverDates ==
    {<<day, hour>> : day \in {0, 1, 14, 15, 16}, hour \in {3, 4}} \cup {InvalidDate}

Chars == {Delimiter, Comma, "x"}
Lines == SeqsUpTo(Chars, MaxLineLen)

\* a line of one field, a line of five fields and a line of six
StreamLines ==
    {<<"x">>,
     <<"x", Delimiter, Delimiter, Delimiter, Delimiter, "x">>,
     <<Delimiter, Delimiter, Delimiter, Delimiter, "x", Delimiter>>}

(***************************************************************************)
(* Initial states.                                                         *)
(***************************************************************************)
DecoderIdle == data = <<>> /\ line = None /\ yielded = <<>> /\ rf_pc = "idle"
ResolverIdle ==
    in_dates = <<>> /\ scanned = 0 /\ sd_start = None /\ sd_end = None
    /\ resolved = Some(<<None, None>>)
DriverIdle ==
    pc = "idle" /\ files_done = 0 /\ no_of_ignored_files = 0 /\ summary = <<>>
ParseIdle ==
    /\ file_first = None /\ file_last = None
    /\ seen_valid = FALSE /\ at_last = FALSE
    /\ start_date = None /\ end_date = None
    /\ row = None /\ rows_read = 0
    /\ current_hour = None /\ current_day = None /\ current_weekday = None
    /\ no_of_days = 0 /\ no_of_days_week = [day \in WeekDays |-> 0]
    /\ app_foreground_use = EmptyDict
    /\ screen_on = FALSE /\ screen_unlocked = FALSE
    /\ last_importance_app_pid = None
    /\ ids_names = EmptyDict
    /\ current_app_name_id_mapping = <<>>
    /\ app_data = EmptyDict

\* __main__ before its loop: lines 312-323
Init ==
    /\ pc = "main"
    /\ files_done = 0
    /\ no_of_ignored_files = 0
    /\ summary = <<>>
    /\ ParseIdle
    /\ DecoderIdle
    /\ ResolverIdle

\* read_file on a file of one line, or of none
InitDecoder ==
    /\ data \in {<<>>} \cup {<<l>> : l \in Lines}
    /\ line = None
    /\ yielded = <<>>
    /\ rf_pc = "reading"
    /\ DriverIdle
    /\ ParseIdle
    /\ ResolverIdle

\* read_file on a file of several lines
InitStream ==
    /\ data \in SeqsUpTo(StreamLines, MaxLines)
    /\ line = None
    /\ yielded = <<>>
    /\ rf_pc = "reading"
    /\ DriverIdle
    /\ ParseIdle
    /\ ResolverIdle

\* search_dates before its loop: lines 87-88
InitResolver ==
    /\ in_dates \in SeqsUpTo(ResolverDates, MaxDates)
    /\ scanned = 0
    /\ sd_start = None
    /\ sd_end = None
    /\ resolved = None
    /\ DriverIdle
    /\ ParseIdle
    /\ DecoderIdle

(***************************************************************************)
(* Specifications.                                                         *)
(***************************************************************************)
\* the loop of __main__ over a list of one file
OneFile ==
    \E first \in FileEnds, last \in FileEnds :
        files_done = 0 /\ NextFile(first, last)

\* one file of counter readings
Next ==
    \/ OneFile
    \/ rows_read < MaxRows /\ \E r \in CounterRows : SkipRow(r)
    \/ rows_read < MaxRows /\ \E r \in CounterRows : NetApp(r)
    \/ rows_read < MaxRows /\ \E r \in CounterRows : AppInstalled(r)
    \/ EndOfFile
    \/ EndOfList

Spec == Init /\ [][Next]_vars

\* one file of installations and readings of two apps
NextIdentity ==
    \/ OneFile
    \/ rows_read < MaxIdentityRows /\ \E r \in IdentityRows : SkipRow(r)
    \/ rows_read < MaxIdentityRows /\ \E r \in IdentityRows : NetApp(r)
    \/ rows_read < MaxIdentityRows /\ \E r \in IdentityRows : AppInstalled(r)
    \/ EndOfFile
    \/ EndOfList

SpecIdentity == Init /\ [][NextIdentity]_vars

\* one file of foreground, lock and screen events
NextForeground ==
    \/ OneFile
    \/ rows_read < MaxForegroundRows /\ \E r \in ForegroundRows : SkipRow(r)
    \/ rows_read < MaxForegroundRows /\ \E r \in ForegroundRows : Importance(r)
    \/ rows_read < MaxForegroundRows /\ \E r \in ForegroundRows : AppName(r)
    \/ rows_read < MaxForegroundRows /\ \E r \in ForegroundRows : HfLocked(r)
    \/ rows_read < MaxForegroundRows /\ \E r \in ForegroundRows : ScreenPower(r)
    \/ rows_read < MaxForegroundRows /\ \E r \in ForegroundRows : NetApp(r)
    \/ rows_read < MaxForegroundRows /\ \E r \in ForegroundRows : AppInstalled(r)
    \/ rows_read < MaxForegroundRows /\ \E r \in ForegroundRows : NoBranch(r)
    \/ EndOfFile
    \/ EndOfList

SpecForeground == Init /\ [][NextForeground]_vars

\* a list of files of screen events
NextBatch ==
    \/ \E first \in BatchEnds, last \in BatchEnds :
          files_done < MaxDevices /\ NextFile(first, last)
    \/ rows_read < MaxBatchRows /\ \E r \in BatchRows : SkipRow(r)
    \/ rows_read < MaxBatchRows /\ \E r \in BatchRows : ScreenPower(r)
    \/ EndOfFile
    \/ EndOfList

SpecBatch == Init /\ [][NextBatch]_vars

\* one file whose first records carry traffic and whose later ones do not
NextSaturday ==
    \/ OneFile
    \/ rows_read < MaxTrafficRows /\ \E r \in SaturdayTrafficRows : NetApp(r)
    \/ rows_read < MaxTrafficRows /\ \E r \in SaturdayTrafficRows : AppInstalled(r)
    \/ rows_read < MaxSaturdayRows /\ \E r \in SaturdayClockRows : SkipRow(r)
    \/ rows_read < MaxSaturdayRows /\ \E r \in SaturdayClockRows : ScreenPower(r)
    \/ EndOfFile
    \/ EndOfList

SpecSaturday == Init /\ [][NextSaturday]_vars

\* a list of files with records that make parse_file raise
NextFailure ==
    \/ \E first \in FileEnds, last \in FileEnds :
          files_done < MaxDevices /\ NextFile(first, last)
    \/ rows_read < MaxFailureRows /\ \E r \in FailureRows : SkipRow(r)
    \/ rows_read < MaxFailureRows /\ \E r \in FailureRows : NetApp(r)
    \/ rows_read < MaxFailureRows /\ \E r \in FailureRows : AppInstalled(r)
    \/ EndOfFile
    \/ EndOfList

SpecFailure == Init /\ [][NextFailure]_vars

NextResolver == SearchRow \/ Resolve

SpecResolver == InitResolver /\ [][NextResolver]_vars

NextDecoder == ReadLine \/ EndOfData

SpecDecoder == InitDecoder /\ [][NextDecoder]_vars

SpecStream == InitStream /\ [][NextDecoder]_vars

(***************************************************************************)
(* Properties.                                                             *)
(***************************************************************************)
Names == {"A", "B"}
Directions == {"rx_bytes", "tx_bytes"}

\* the step read one more record of the file: row' is that record
ReadsRow == rows_read' = rows_read + 1

\* the record has a valid date inside [start_date, end_date)
InWindow(r) ==
    /\ r.Date # InvalidDate
    /\ ~Before(r.Date, Val(start_date))
    /\ Before(r.Date, Val(end_date))

\* the record is net|app|<app id>|<direction> with an integer value
IsReading(r, direction) ==
    /\ Len(r.EntryType) = 4
    /\ r.EntryType[1] = "net"
    /\ r.EntryType[2] = "app"
    /\ r.EntryType[4] = direction
    /\ Len(r.Value) = 1

\* the identity map binds the name to the id
BoundTo(mapping, name, app_id) ==
    \E i \in DOMAIN mapping : mapping[i].key = name /\ mapping[i].val = app_id

LastCounter(bucket, direction) ==
    IF direction = "rx_bytes" THEN bucket.last_rx ELSE bucket.last_tx
Deltas(bucket, direction) ==
    IF direction = "rx_bytes" THEN bucket.rx ELSE bucket.tx

\* C1: a reading of a counter of an app whose last counter is unset appends
\* no delta; a reading greater than the last counter appends their
\* difference to the cell [weekday of the record's date][hour of the
\* record], and to no other cell; the last counter then is the reading.
C1_BaselineThenDifference ==
    [][ReadsRow =>
        LET r == Val(row')
        IN  \A name \in Names, direction \in Directions :
                (/\ InWindow(r)
                 /\ IsReading(r, direction)
                 /\ BoundTo(current_app_name_id_mapping, name, r.EntryType[3]))
                =>
                LET reading == r.Value[1]
                    last == LastCounter(app_data[name], direction)
                    before == Deltas(app_data[name], direction)
                    after == Deltas(app_data'[name], direction)
                    weekday == WeekdayOf(Day(r.Date))
                    hour == Hour(r.Date)
                IN  /\ last = None => after = before
                    /\ (last # None /\ reading > Val(last)) =>
                           after = [before EXCEPT ![weekday][hour] =
                                       Append(@, reading - Val(last))]
                    /\ LastCounter(app_data'[name], direction) = Some(reading)
    ]_vars

\* readings 50, 100, 250 of one hour of a Saturday left the deltas 50, 150
C1_Witness ==
    /\ "A" \in DOMAIN app_data
    /\ app_data["A"].rx[5][14] = <<50, 150>>
    /\ app_data["A"].last_rx = Some(250)

\* C2: a reading smaller than the last counter appends the reading itself to
\* the cell of the record, a reading equal to it appends nothing, and in
\* both cases the last counter then is the reading.
C2_ResetAppendsReading ==
    [][ReadsRow =>
        LET r == Val(row')
        IN  \A name \in Names, direction \in Directions :
                (/\ InWindow(r)
                 /\ IsReading(r, direction)
                 /\ BoundTo(current_app_name_id_mapping, name, r.EntryType[3])
                 /\ LastCounter(app_data[name], direction) # None)
                =>
                LET reading == r.Value[1]
                    last == Val(LastCounter(app_data[name], direction))
                    before == Deltas(app_data[name], direction)
                    after == Deltas(app_data'[name], direction)
                    weekday == WeekdayOf(Day(r.Date))
                    hour == Hour(r.Date)
                IN  /\ reading < last =>
                           after = [before EXCEPT ![weekday][hour] = Append(@, reading)]
                    /\ reading = last => after = before
                    /\ reading <= last =>
                           LastCounter(app_data'[name], direction) = Some(reading)
    ]_vars

\* readings 250 then 50: the 50 is the only delta and the last counter
C2_Witness ==
    /\ "A" \in DOMAIN app_data
    /\ app_data["A"].rx[5][14] = <<50>>
    /\ app_data["A"].last_rx = Some(50)
    /\ row # None
    /\ IsReading(Val(row), "rx_bytes")

AppIds == {"7", "8"}

\* the record is an app|installed record with the entry name@...:app_id
Installs(r, name, app_id) ==
    /\ Len(r.EntryType) >= 2
    /\ r.EntryType[1] = "app"
    /\ r.EntryType[2] = "installed"
    /\ \E i \in DOMAIN r.Value :
           /\ Len(r.Value[i]) > 1
           /\ r.Value[i][1] = name
           /\ TempAppId(r.Value[i][2]) = app_id

\* C3: when a name A is bound to an app id X and a step binds another name
\* B to X, A is unbound afterwards and the buckets and last counters of A
\* are as before; a reading of id X changes the buckets of the name bound to
\* X and of no name that is not bound to X; and a name becomes bound to X
\* only by an app|installed record that names it with X.
C3_IdentityRebinding ==
    [][\A a \in Names, x \in AppIds :
        /\ \A b \in Names \ {a} :
               (/\ BoundTo(current_app_name_id_mapping, a, x)
                /\ BoundTo(current_app_name_id_mapping', b, x))
               => /\ BoundTo(current_app_name_id_mapping', a, Unbound)
                  /\ ~BoundTo(current_app_name_id_mapping', a, x)
                  /\ app_data'[a] = app_data[a]
                  /\ app_foreground_use' = app_foreground_use
        /\ (/\ ReadsRow
            /\ InWindow(Val(row'))
            /\ \E direction \in Directions : IsReading(Val(row'), direction)
            /\ Val(row').EntryType[3] = x
            /\ a \in DOMAIN app_data)
           => IF BoundTo(current_app_name_id_mapping, a, x)
              THEN \E direction \in Directions :
                       /\ IsReading(Val(row'), direction)
                       /\ LastCounter(app_data'[a], direction) = Some(Val(row').Value[1])
              ELSE app_data'[a] = app_data[a]
        /\ (/\ ~BoundTo(current_app_name_id_mapping, a, x)
            /\ BoundTo(current_app_name_id_mapping', a, x))
           => /\ ReadsRow
              /\ InWindow(Val(row'))
              /\ Installs(Val(row'), a, x)
    ]_vars

\* A was bound to 7 and read 100, B then took 7 and read 250: A is unbound
\* and still holds its last counter
C3_Witness ==
    /\ BoundTo(current_app_name_id_mapping, "A", Unbound)
    /\ BoundTo(current_app_name_id_mapping, "B", "7")
    /\ app_data["A"].last_rx = Some(100)
    /\ app_data["B"].last_rx = Some(250)

\* the record is an app|<pid>|name record
IsAppName(r) ==
    /\ Len(r.EntryType) = 3
    /\ r.EntryType[1] = "app"
    /\ r.EntryType[3] = "name"

\* the activation count of a cell, 0 for a name without a grid
Activations(use, name, weekday, hour) ==
    IF name \in DOMAIN use THEN use[name][weekday][hour] ELSE 0

\* C4: an app name record processed while a foreground pid is pending adds
\* exactly 1 to the activation cell [weekday][hour] of its app when its pid
\* is the pending pid and the screen is on and the device is unlocked, and
\* changes no other cell; otherwise it changes no cell; the pending pid is
\* unset afterwards in every case.
C4_ForegroundGating ==
    [][(/\ ReadsRow
        /\ InWindow(Val(row'))
        /\ IsAppName(Val(row'))
        /\ last_importance_app_pid # None)
       =>
       LET r == Val(row')
           counted == /\ r.EntryType[2] = Val(last_importance_app_pid)
                      /\ screen_on
                      /\ screen_unlocked
       IN  /\ \A name \in Names, weekday \in WeekDays, hour \in Hours :
                  Activations(app_foreground_use', name, weekday, hour) =
                      Activations(app_foreground_use, name, weekday, hour)
                      + (IF /\ counted
                            /\ name = r.Value[1]
                            /\ weekday = WeekdayOf(Day(r.Date))
                            /\ hour = Hour(r.Date)
                         THEN 1 ELSE 0)
           /\ DOMAIN app_foreground_use' \subseteq Names
           /\ last_importance_app_pid' = None
           /\ screen_on' = screen_on
           /\ screen_unlocked' = screen_unlocked
    ]_vars

\* screen on, device unlocked, pid 1 in the foreground, then the name of
\* pid 1: one activation of A on Saturday at 14 and no pending pid
C4_Witness ==
    /\ row = Some(NameRow(<<5, 14>>, "1", "A"))
    /\ rows_read = 5
    /\ screen_on
    /\ screen_unlocked
    /\ last_importance_app_pid = None
    /\ Activations(app_foreground_use, "A", 5, 14) = 1

\* search_dates and get_start_end_dates gave a range for the file
HasRange(first, last) ==
    LET range == GetStartEndDates(first, last)
    IN  range[1] # None /\ range[2] # None

\* C5: every device either appends one row to the summary or adds 1 to the
\* count of ignored files, never both, so rows + ignored = devices done; the
\* row is appended exactly when the resolver gave a range and the day
\* counter is at least 14 at the end of the file.
C5_BatchAccounting ==
    [][/\ Len(summary') + no_of_ignored_files' = files_done'
       /\ files_done' \in {files_done, files_done + 1}
       /\ files_done' = files_done =>
              summary' = summary /\ no_of_ignored_files' = no_of_ignored_files
       /\ files_done' = files_done + 1 =>
              /\ \/ /\ Len(summary') = Len(summary) + 1
                    /\ SubSeq(summary', 1, Len(summary)) = summary
                    /\ summary'[Len(summary')].fname = files_done
                    /\ no_of_ignored_files' = no_of_ignored_files
                 \/ /\ summary' = summary
                    /\ no_of_ignored_files' = no_of_ignored_files + 1
              /\ (Len(summary') = Len(summary) + 1)
                 <=> (HasRange(file_first', file_last') /\ no_of_days >= 14)
    ]_vars

\* two devices done: the first gave a row, the second had a range, was
\* parsed over fewer than 14 days and was ignored
C5_Witness ==
    /\ pc = "main"
    /\ files_done = 2
    /\ Len(summary) = 1
    /\ summary[1].fname = 0
    /\ no_of_ignored_files = 1
    /\ HasRange(file_first, file_last)
    /\ rows_read \in 2..13
    /\ no_of_days \in 1..13

\* get_start_end_dates has returned, and returned a range
Returned == resolved # None
ReturnedRange == Returned /\ Val(resolved)[1] # None /\ Val(resolved)[2] # None
RangeStart == Val(Val(resolved)[1])
RangeEnd == Val(Val(resolved)[2])

\* C6: the start of a returned range is the date of the start timestamp when
\* its hour is below 4 and the next date otherwise; the end is the date of
\* the end timestamp when its hour is 4 or more and the previous date
\* otherwise; both boundaries are at 4 o'clock.
C6_DayBoundaryRounding ==
    ReturnedRange =>
        LET start == Val(sd_start)
            end == Val(sd_end)
        IN  /\ Day(RangeStart) = (IF Hour(start) < 4 THEN Day(start) ELSE Day(start) + 1)
            /\ Day(RangeEnd) = (IF Hour(end) >= 4 THEN Day(end) ELSE Day(end) - 1)
            /\ Hour(RangeStart) = 4
            /\ Hour(RangeEnd) = 4

\* a range from a start at 3 o'clock, kept on its date, and an end at
\* 3 o'clock, moved to the previous date
C6_Witness ==
    /\ ReturnedRange
    /\ Hour(Val(sd_start)) = 3
    /\ Hour(Val(sd_end)) = 3
    /\ Day(RangeStart) = Day(Val(sd_start))
    /\ Day(RangeEnd) = Day(Val(sd_end)) - 1

IsValidDate(date_time) == date_time # InvalidDate

RowWritten == pc = "main" /\ files_done = 1 /\ Len(summary) = 1

\* the bytes of one app in the cell [weekday][hour], both directions
Bytes(name, weekday, hour) ==
    IF name \in DOMAIN app_data
    THEN Sum(app_data[name].rx[weekday][hour]) + Sum(app_data[name].tx[weekday][hour])
    ELSE 0

\* C8: the total written for hour h of a device with S >= 1 Saturdays is the
\* sum, over all apps, of the rx and the tx deltas of the cell [5][h],
\* divided by S, the day counter of weekday 5; the deltas of the other
\* weekdays are no part of it.
C8_SaturdayProfile ==
    (RowWritten /\ no_of_days_week[5] >= 1) =>
        /\ DOMAIN app_data \subseteq Names
        /\ \A h \in Hours :
               LET total == summary[1].totals[h]
               IN  /\ total.den > 0
                   /\ total.num * no_of_days_week[5] =
                          total.den * (Bytes("A", 5, h) + Bytes("B", 5, h))

\* one delta of 1000 in hour 14 of the first of two Saturdays, and a delta
\* on a Sunday: the total of hour 14 is 500
C8_Witness ==
    /\ RowWritten
    /\ no_of_days_week[5] = 2
    /\ Bytes("A", 5, 14) + Bytes("B", 5, 14) = 1000
    /\ Bytes("A", 6, 14) > 0
    /\ summary[1].totals[14] = [num |-> 500, den |-> 1]

\* C9: a device with a day counter of at least 14 and no Saturday gets one
\* row, all 24 totals of which are zero, and is not counted as ignored.
C9_ZeroSaturdays ==
    (pc = "main" /\ files_done = 1 /\ no_of_days >= 14 /\ no_of_days_week[5] = 0) =>
        /\ Len(summary) = 1
        /\ summary[1].fname = 0
        /\ DOMAIN summary[1].totals = Hours
        /\ \A h \in Hours : summary[1].totals[h] = [num |-> 0, den |-> 1]
        /\ no_of_ignored_files = 0

\* 14 days of Sundays, one of them with a delta of 2000, and no Saturday
C9_Witness ==
    /\ pc = "main"
    /\ files_done = 1
    /\ no_of_days >= 14
    /\ no_of_days_week[5] = 0
    /\ Bytes("A", 6, 14) = 2000
    /\ Len(summary) = 1

\* the number of occurrences of c in s
Count(s, c) == Cardinality({i \in DOMAIN s : s[i] = c})

\* what follows the n-th occurrence of c in s
RECURSIVE AfterNth(_, _, _)
AfterNth(s, c, n) ==
    IF n = 0 THEN s
    ELSE IF s = <<>> THEN <<>>
    ELSE AfterNth(Tail(s), c, IF Head(s) = c THEN n - 1 ELSE n)

\* what precedes the first occurrence of c in s
RECURSIVE BeforeFirst(_, _)
BeforeFirst(s, c) ==
    IF s = <<>> \/ Head(s) = c THEN <<>>
    ELSE <<Head(s)>> \o BeforeFirst(Tail(s), c)

\* s with every c replaced by d
Replaced(s, c, d) == [i \in DOMAIN s |-> IF s[i] = c THEN d ELSE s[i]]

\* the line read had at least four delimiters
LongLine == line # None /\ Count(Val(line), ";") >= 4

\* the statement of C10 as the specification has it: the Value of the record
\* of a line with at least four ';' is what follows the fourth ';', its
\* delimiters unchanged.
C10_ValueUnchanged ==
    LongLine =>
        /\ Len(yielded) = 1
        /\ yielded[1][5] = AfterNth(Val(line), ";", 4)

\* C10: the record of a line with at least four ';' has five fields, the
\* first four are what the first four ';' delimit, and the Value is what
\* follows the fourth ';' with every ';' in it replaced by ','.
C10_Repacking ==
    LongLine =>
        /\ rf_pc # "failed"
        /\ Len(yielded) = 1
        /\ DOMAIN yielded[1] = 1..5
        /\ \A k \in 1..4 :
               yielded[1][k] = BeforeFirst(AfterNth(Val(line), ";", k - 1), ";")
        /\ yielded[1][5] = Replaced(AfterNth(Val(line), ";", 4), ";", ",")

\* a line with five ';': the Value of its record starts with a ','
C10_Witness ==
    /\ line # None
    /\ Count(Val(line), ";") = 5
    /\ Val(line)[1] = "x"
    /\ Len(yielded) = 1
    /\ yielded[1][1] = <<"x">>
    /\ yielded[1][5] = <<",">>

\* C11: whatever the file of a device holds, the run is not ended by it:
\* no exception raised while the file is parsed leaves the loop over the
\* devices, so that every device ends as a row or as an ignored file and
\* the devices after it are processed.
C11_FailureIsolation ==
    /\ pc # "raised"
    /\ pc = "finished" => Len(summary) + no_of_ignored_files = files_done

\* the record has the invalid date, or a date outside the window, or a top
\* category other than app, screen, hf and net
IsSkipped(r) ==
    IF r.Date = InvalidDate THEN TRUE
    ELSE IF r.EntryType[1] \notin {"app", "screen", "hf", "net"} THEN TRUE
    ELSE ~InWindow(r)

\* C12: a skipped record changes none of the current day, weekday and hour,
\* the day counters, the pending pid, the screen and lock flags, the
\* identity map, the activation grids, the last counters and the delta
\* lists, and the file goes on being read after it.
C12_SkippedFrame ==
    [][(ReadsRow /\ IsSkipped(Val(row'))) =>
           /\ current_day' = current_day
           /\ current_weekday' = current_weekday
           /\ current_hour' = current_hour
           /\ no_of_days' = no_of_days
           /\ no_of_days_week' = no_of_days_week
           /\ last_importance_app_pid' = last_importance_app_pid
           /\ screen_on' = screen_on
           /\ screen_unlocked' = screen_unlocked
           /\ ids_names' = ids_names
           /\ current_app_name_id_mapping' = current_app_name_id_mapping
           /\ app_foreground_use' = app_foreground_use
           /\ app_data' = app_data
           /\ pc' = "parse"
           /\ no_of_ignored_files' = no_of_ignored_files
           /\ summary' = summary
    ]_vars

\* a record of category phone read inside the window with the screen on, a
\* pid pending and an app installed
C12_Witness ==
    /\ row = Some(PhoneRow(<<5, 14>>))
    /\ pc = "parse"
    /\ screen_on
    /\ last_importance_app_pid = Some("1")
    /\ current_hour = Some(14)
    /\ no_of_days = 1
    /\ BoundTo(current_app_name_id_mapping, "A", "7")

\* C13: a reading whose app id no name is bound to is dropped: it raises
\* nothing, is not counted as ignored and changes no delta list and no last
\* counter; the bucket of an unbound name is not changed by a reading.
\* Stated for files that install no app under the empty id, so that every
\* name the map holds with '' is one that lost its id to another name.
C13_UnresolvableDropped ==
    [][(/\ ReadsRow
        /\ InWindow(Val(row'))
        /\ \E direction \in Directions : IsReading(Val(row'), direction)
        /\ Unbound \notin DOMAIN ids_names)
       =>
       /\ pc' = "parse"
       /\ no_of_ignored_files' = no_of_ignored_files
       /\ \A name \in DOMAIN app_data :
              (\/ BoundTo(current_app_name_id_mapping, name, Unbound)
               \/ ~BoundTo(current_app_name_id_mapping, name, Val(row').EntryType[3]))
              => app_data'[name] = app_data[name]
    ]_vars

\* the earliest and the latest of a set of dates
Earliest(dates) == CHOOSE d \in dates : \A e \in dates : ~Before(e, d)
Latest(dates) == CHOOSE d \in dates : \A e \in dates : ~Before(d, e)

\* C14: the resolver's result is the one the earliest and the latest valid
\* date of the file give, in whatever order the file holds its records, and
\* the records with the invalid date have no part in it.
C14_MinMaxRange ==
    Returned =>
        LET valid == Range(SelectSeq(in_dates, IsValidDate))
        IN  IF valid = {} THEN ~ReturnedRange
            ELSE LET start == Earliest(valid)
                     end == Latest(valid)
                     s == IF Hour(start) < 4 THEN Day(start) ELSE Day(start) + 1
                     e == IF Hour(end) >= 4 THEN Day(end) ELSE Day(end) - 1
                 IN  IF e - s >= 14
                     THEN /\ ReturnedRange
                          /\ RangeStart = <<s, 4>>
                          /\ RangeEnd = <<e, 4>>
                     ELSE ~ReturnedRange

\* the calendar dates of a set of records
DatesOf(rows) == {Day(r.Date) : r \in {q \in rows : q.Date # InvalidDate}}

\* C15: the day counter of a file is at most the number of distinct
\* calendar dates of its processed records, in whatever order they come,
\* so that a device observed on fewer than 14 dates gets no row.  Every
\* file here is made of records of BatchRows, of fewer than 14 dates.
C15_ObservedDays ==
    Cardinality(DatesOf(BatchRows)) < 14 =>
        /\ no_of_days <= Cardinality(DatesOf(BatchRows))
        /\ summary = <<>>

\* C16: after any sequence of installed records no two names of the
\* identity map hold the same app id, so that the app id of a reading
\* matches at most one name.
C16_IdentityUnique ==
    \A i, j \in DOMAIN current_app_name_id_mapping :
        current_app_name_id_mapping[i].val = current_app_name_id_mapping[j].val
        => i = j

\* C17: a line of fewer than five fields is dropped alone and the lines
\* after it are delivered: when the stream of a file has ended, no line of
\* five fields or more is left unread.
C17_MalformedSkipped ==
    rf_pc \in {"failed", "exhausted"} =>
        \A i \in DOMAIN data : Count(data[i], ";") < 4

\* the places of the identity map, in insertion order, that hold the id
Holders(app_id) ==
    {i \in DOMAIN current_app_name_id_mapping :
        current_app_name_id_mapping[i].val = app_id}

\* the step reads a processed reading whose app id several names hold, and
\* gives it to the name at the place `chosen` of the map and to no other
GivenTo(chosen) ==
    LET r == Val(row')
        name == current_app_name_id_mapping[chosen].key
    IN  /\ \E direction \in Directions :
               /\ IsReading(r, direction)
               /\ LastCounter(app_data'[name], direction) = Some(r.Value[1])
        /\ \A other \in DOMAIN app_data \ {name} : app_data'[other] = app_data[other]

SeveralHolders ==
    /\ ReadsRow
    /\ InWindow(Val(row'))
    /\ \E direction \in Directions : IsReading(Val(row'), direction)
    /\ Cardinality(Holders(Val(row').EntryType[3])) > 1

ReadsProcessed == ReadsRow /\ ~IsSkipped(Val(row'))

\* the record is an importance record of an app in the foreground
IsForegroundImportance(r) ==
    "importance" \in Range(r.EntryType) /\ "foreground" \in Range(r.Value)

\* the step adds 1 to one activation cell and changes no other
OneActivation ==
    \E name \in Names, weekday \in WeekDays, hour \in Hours :
        /\ Activations(app_foreground_use', name, weekday, hour) =
               Activations(app_foreground_use, name, weekday, hour) + 1
        /\ \A n \in Names, w \in WeekDays, h \in Hours :
               <<n, w, h>> # <<name, weekday, hour>> =>
                   Activations(app_foreground_use', n, w, h) =
                       Activations(app_foreground_use, n, w, h)

\* C19: the pending pid is one slot.  A foreground importance record
\* overwrites it with its pid; only such a record sets it and only such a
\* record or an app name record changes it, so that lock, screen, net,
\* installed and other importance records leave it; an app name record read
\* while it is set unsets it.  An activation is counted only by a step that
\* finds the slot set and leaves it unset, one activation at most, so that
\* there are no more activations than foreground importance records; and
\* only with the screen on and the device unlocked, which a file starts
\* without and which only a screen record and a lock record turn on.
C19_SinglePendingPid ==
    [][/\ (ReadsProcessed /\ IsForegroundImportance(Val(row'))) =>
              last_importance_app_pid' = Some(Val(row').EntryType[2])
       /\ last_importance_app_pid' # last_importance_app_pid =>
              \/ pc = "main" /\ last_importance_app_pid' = None
              \/ /\ ReadsProcessed
                 /\ IF last_importance_app_pid' = None
                    THEN IsAppName(Val(row'))
                    ELSE IsForegroundImportance(Val(row'))
       /\ (/\ ReadsProcessed
           /\ IsAppName(Val(row'))
           /\ ~IsForegroundImportance(Val(row'))
           /\ last_importance_app_pid # None) =>
              last_importance_app_pid' = None
       /\ app_foreground_use' # app_foreground_use =>
              \/ pc = "main" /\ app_foreground_use' = EmptyDict
              \/ /\ ReadsProcessed
                 /\ OneActivation
                 /\ last_importance_app_pid # None
                 /\ last_importance_app_pid' = None
                 /\ screen_on
                 /\ screen_unlocked
       /\ (pc = "main" /\ pc' = "parse") =>
              ~screen_on' /\ ~screen_unlocked' /\ last_importance_app_pid' = None
       /\ (~screen_on /\ screen_on') =>
              ReadsProcessed /\ StartsWith(Val(row').EntryType, <<"screen", "power">>)
       /\ (~screen_unlocked /\ screen_unlocked') =>
              ReadsProcessed /\ StartsWith(Val(row').EntryType, <<"hf", "locked">>)
    ]_vars

\* the pid 2, set before or between a screen and a lock record, is still
\* pending after a reading
C19_Witness ==
    /\ row = Some(NetRow(<<5, 14>>, "7", "rx_bytes", 100))
    /\ rows_read = 5
    /\ last_importance_app_pid = Some("2")
    /\ screen_on
    /\ screen_unlocked

\* list a is list b or list b without its last element
GrewAtEnd(a, b) ==
    /\ Len(a) <= Len(b)
    /\ Len(b) <= Len(a) + 1
    /\ SubSeq(b, 1, Len(a)) = a

\* the bucket has no delta and no last counter
IsFresh(bucket) ==
    /\ bucket.last_rx = None
    /\ bucket.last_tx = None
    /\ \A weekday \in WeekDays, hour \in Hours :
           bucket.rx[weekday][hour] = <<>> /\ bucket.tx[weekday][hour] = <<>>

\* C20: the names with a bucket are the names of the identity map; a
\* bucket appears, without deltas and last counters, at a step that reads
\* an installed record naming it, and stays; whatever is installed or
\* unbound afterwards, each step leaves each of its delta lists as it is or
\* with one element more at the end, and a last counter that is set stays
\* set.
C20_BucketPersistence ==
    [][pc' = "parse" =>
        /\ DOMAIN app_data' = {current_app_name_id_mapping'[i].key :
                                  i \in DOMAIN current_app_name_id_mapping'}
        /\ pc = "parse" =>
            /\ DOMAIN app_data \subseteq DOMAIN app_data'
            /\ \A name \in DOMAIN app_data' \ DOMAIN app_data :
                   /\ ReadsProcessed
                   /\ \E app_id \in {"", "7", "8"} : Installs(Val(row'), name, app_id)
                   /\ IsFresh(app_data'[name])
            /\ \A name \in DOMAIN app_data :
                   /\ \A direction \in Directions, weekday \in WeekDays, hour \in Hours :
                          GrewAtEnd(Deltas(app_data[name], direction)[weekday][hour],
                                    Deltas(app_data'[name], direction)[weekday][hour])
                   /\ \A direction \in Directions :
                          LastCounter(app_data[name], direction) # None =>
                              LastCounter(app_data'[name], direction) # None
    ]_vars

\* A read 100 under id 7, lost 7 to B, was installed with 7 again and read
\* 250: the delta is 150, against the reading taken before
C20_Witness ==
    /\ BoundTo(current_app_name_id_mapping, "A", "7")
    /\ BoundTo(current_app_name_id_mapping, "B", Unbound)
    /\ app_data["A"].rx[5][14] = <<150>>
    /\ app_data["A"].last_rx = Some(250)
    /\ IsFresh(app_data["B"])

====
